---- MODULE Spec2Model ----
(***************************************************************************)
(* State-machine model of network_configparser.py: the key store           *)
(* (load_or_create_keys), the configuration compiler                       *)
(* (NetworkConfigParser.__init__: per-link resolution, connector           *)
(* resolution, OSPF area aggregation) and the BIRD renderer                *)
(* (get_bird_config).                                                      *)
(*                                                                         *)
(* Python dicts are modelled as functions whose DOMAIN is the set of keys  *)
(* present (raw configuration), or as sequences of <<key, value>> pairs    *)
(* where the code relies on insertion order (self.interfaces, the area     *)
(* map).  An optional object is a sequence of length 0 or 1.               *)
(***************************************************************************)
EXTENDS Integers, Sequences, FiniteSets, TLC

VARIABLES root_config, node, key_store, key_log, pc, next_link,
          interfaces, interface_cidrs, ospf_area_config, network_bird_config

vars == <<root_config, node, key_store, key_log, pc, next_link,
          interfaces, interface_cidrs, ospf_area_config, network_bird_config>>

(***************************************************************************)
(* Bounds of the model.                                                    *)
(***************************************************************************)
\* most links declared under root_config['networks'] in an aggregation run
MaxLinks == 2
\* number of distinct private keys "wg genkey" may hand out
MaxKey == 2
\* most calls of load_or_create_keys in a run of the key store alone
MaxCalls == 3

(***************************************************************************)
(* Dict helpers.                                                           *)
(***************************************************************************)
\* d.get(k, default)
Get(d, k, default) == IF k \in DOMAIN d THEN d[k] ELSE default

\* a key that is either missing or present with a value of S
Opt(k, S) == {<<>>} \cup {k :> v : v \in S}

\* ordered dict: keys, membership, lookup, d[k] = v
DictKeys(d) == {d[i][1] : i \in 1..Len(d)}

DictGet(d, k) == d[CHOOSE i \in 1..Len(d) : d[i][1] = k][2]

DictSet(d, k, v) ==
    IF k \in DictKeys(d)
    THEN [i \in 1..Len(d) |-> IF d[i][1] = k THEN <<k, v>> ELSE d[i]]
    ELSE Append(d, <<k, v>>)

\* list concatenation over a sequence of lists
RECURSIVE Flatten(_)
Flatten(ss) == IF ss = <<>> THEN <<>> ELSE Head(ss) \o Flatten(Tail(ss))

\* sep.join(texts)
RECURSIVE JoinText(_, _)
JoinText(sep, texts) ==
    IF texts = <<>> THEN ""
    ELSE IF Len(texts) = 1 THEN texts[1]
    ELSE texts[1] \o sep \o JoinText(sep, Tail(texts))

\* A text of several lines (a sequence of lines) put into a template line
\* between prefix and suffix: the first line follows prefix, the last
\* precedes suffix.  The empty text is the single empty line.
Embed(prefix, lines, suffix) ==
    LET text == IF lines = <<>> THEN <<"">> ELSE lines
    IN [i \in 1..Len(text) |->
           (IF i = 1 THEN prefix ELSE "") \o text[i]
           \o (IF i = Len(text) THEN suffix ELSE "")]

(***************************************************************************)
(* load_or_create_keys and its collaborators.                              *)
(***************************************************************************)
\* the private keys "wg genkey" can print
PrivKeys == {"priv" \o ToString(k) : k \in 1..MaxKey}

\* "wg pubkey": a deterministic function of the private key
wg_pubkey(private) == "pub(" \o private \o ")"

\* 'local/{}.{}.json'.format(namespace, name)
KeyPath(namespace, name) == "local/" \o namespace \o "." \o name \o ".json"

\* open(path, 'w') + write: the file at path holds exactly the new content
WriteFile(store, path, content) ==
    {f \in store : f[1] # path} \cup {<<path, content>>}

\* faulty variant: the record is regenerated and rewritten on every call
load_or_create_keys_always_create(store, namespace, name) ==
    LET path == KeyPath(namespace, name)
    IN { [keys  |-> [private |-> k, public |-> wg_pubkey(k)],
          store |-> WriteFile(store, path,
                              [private |-> k, public |-> wg_pubkey(k)])]
         : k \in PrivKeys }

\* The outcomes of one call: the keypair returned and the store afterwards.
load_or_create_keys(store, namespace, name) ==
    LET path  == KeyPath(namespace, name)
        found == {f \in store : f[1] = path}
    IN IF found # {}
       THEN { [keys  |-> [private |-> f[2].private,
                          public  |-> wg_pubkey(f[2].private)],
               store |-> store] : f \in found }
       ELSE { [keys  |-> [private |-> k, public |-> wg_pubkey(k)],
               store |-> WriteFile(store, path,
                                   [private |-> k, public |-> wg_pubkey(k)])]
              : k \in PrivKeys }

(***************************************************************************)
(* Records of config_types (constructors called positionally by the        *)
(* parser; the attribute names are those the parser reads back).           *)
(***************************************************************************)
CommonOSPFConfig(area, cost, auth, type) ==
    [area |-> area, cost |-> cost, auth |-> auth, type |-> type]

InterfaceConfig(name, private, public, mtu, address, listen, peer, allowed, endpoint, keepalive, autoconnect) ==
    [name |-> name, private |-> private, public |-> public, mtu |-> mtu,
     address |-> address, listen |-> listen, peer |-> peer,
     allowed |-> allowed, endpoint |-> endpoint, keepalive |-> keepalive,
     autoconnect |-> autoconnect,
     enable_ospf |-> FALSE, ospf_config |-> <<>>, connector |-> <<>>]

ConnectorPhantunServerConfig(listen, tun_name, tun_local, tun_peer) ==
    [class |-> "ConnectorPhantunServerConfig", listen |-> listen,
     tun_name |-> tun_name, tun_local |-> tun_local, tun_peer |-> tun_peer,
     remote |-> ""]

ConnectorPhantunClientConfig(local, remote, tun_name, tun_local, tun_peer) ==
    [class |-> "ConnectorPhantunClientConfig", local |-> local,
     remote |-> remote, tun_name |-> tun_name, tun_local |-> tun_local,
     tun_peer |-> tun_peer]

\* InterfaceConfig.validate: autoconnect requires a non-empty endpoint
validate(interface) == ~(interface.autoconnect /\ interface.endpoint = "")

(***************************************************************************)
(* NetworkConfigParser.__init__, top-level part.                           *)
(***************************************************************************)
\* '127.0.0.1:{}'.format(port)
Loopback(port) == "127.0.0.1:" \o ToString(port)

ParseTop(root) ==
    LET hostname       == root["hostname"]
        namespace      == root["namespace"]
        local_config   == Get(root, "local", <<>>)
        network_config == root["config"]
        local_ospf     == Get(local_config, "ospf", FALSE)
    IN [hostname      |-> hostname,
        namespace     |-> namespace,
        ifname_prefix |-> Get(root, "prefix", hostname),
        router_id     |-> Get(root, "routerid", ""),
        enable_local_network |-> (DOMAIN local_config # {}),
        local |->
            IF DOMAIN local_config = {} THEN <<>>
            ELSE << [local_is_exit_node |-> Get(local_config, "exit", TRUE),
                     local_veth_prefix  |->
                         Get(local_config, "name", namespace \o "-veth"),
                     local_interface |->
                         [address     |-> local_config["address"],
                          name        |-> local_config["ethname"],
                          enable_ospf |-> local_ospf,
                          ospf_config |->
                              IF local_ospf
                              THEN << CommonOSPFConfig(
                                          Get(local_config, "area", 0),
                                          Get(local_config, "cost", 0),
                                          Get(local_config, "auth", ""),
                                          "ptp") >>
                              ELSE <<>>]] >>,
        network_default_enable_ospf |-> Get(network_config, "ospf", FALSE),
        network_default_ospf_config |->
            CommonOSPFConfig(Get(network_config, "area", 0),
                             Get(network_config, "cost", 0),
                             Get(network_config, "auth", ""),
                             "ptp"),
        enable_local_firewall |-> (DOMAIN Get(root, "firewall", <<>>) # {})]

(***************************************************************************)
(* NetworkConfigParser.__init__, one iteration of the link loop.           *)
(***************************************************************************)
\* faulty variant: the built-in defaults are used in place of the node's defaults
NewInterface_builtin_defaults(self, interface_name, interface_config, wg_config) ==
    LET endpoint    == Get(interface_config, "endpoint", "")
        enable_ospf == Get(interface_config, "ospf", FALSE)
    IN [InterfaceConfig(
            self.namespace \o "-" \o interface_name,
            wg_config.private, wg_config.public,
            Get(interface_config, "mtu", 1420),
            interface_config["address"],
            Get(interface_config, "listen", 0),
            interface_config["peer"],
            "0.0.0.0/0",
            endpoint,
            Get(interface_config, "keepalive", IF endpoint # "" THEN 25 ELSE 0),
            Get(interface_config, "autoconnect", FALSE))
        EXCEPT !.enable_ospf = enable_ospf,
               !.ospf_config =
                   IF enable_ospf
                   THEN << CommonOSPFConfig(
                               Get(interface_config, "area", 0),
                               Get(interface_config, "cost", 0),
                               Get(interface_config, "auth", ""),
                               "ptp") >>
                   ELSE <<>>]

\* lines 164-184: the interface with every default filled in
NewInterface(self, interface_name, interface_config, wg_config) ==
    LET endpoint    == Get(interface_config, "endpoint", "")
        enable_ospf == Get(interface_config, "ospf",
                           self.network_default_enable_ospf)
    IN [InterfaceConfig(
            self.namespace \o "-" \o interface_name,
            wg_config.private, wg_config.public,
            Get(interface_config, "mtu", 1420),
            interface_config["address"],
            Get(interface_config, "listen", 0),
            interface_config["peer"],
            "0.0.0.0/0",
            endpoint,
            Get(interface_config, "keepalive", IF endpoint # "" THEN 25 ELSE 0),
            Get(interface_config, "autoconnect", FALSE))
        EXCEPT !.enable_ospf = enable_ospf,
               !.ospf_config =
                   IF enable_ospf
                   THEN << CommonOSPFConfig(
                               Get(interface_config, "area",
                                   self.network_default_ospf_config.area),
                               Get(interface_config, "cost",
                                   self.network_default_ospf_config.cost),
                               Get(interface_config, "auth",
                                   self.network_default_ospf_config.auth),
                               "ptp") >>
                   ELSE <<>>]

\* faulty variant: the client connector fills the endpoint only when none is configured
ResolveConnector_keep_endpoint(interface_config, new_interface) ==
    IF "connector" \notin DOMAIN interface_config
    THEN [fatal |-> FALSE, interface |-> new_interface]
    ELSE LET connector_config == interface_config["connector"]
         IN IF connector_config["type"] = "phantun-server"
            THEN [fatal |-> FALSE,
                  interface |-> [new_interface EXCEPT !.connector =
                      << [ConnectorPhantunServerConfig(
                              connector_config["listen"],
                              connector_config["tun-name"],
                              connector_config["tun-local"],
                              connector_config["tun-peer"])
                          EXCEPT !.remote =
                              IF new_interface.listen = 0 THEN "#dynamic"
                              ELSE Loopback(new_interface.listen)] >>]]
            ELSE IF connector_config["type"] = "phantun-client"
            THEN [fatal |-> FALSE,
                  interface |-> [new_interface EXCEPT
                      !.endpoint = IF new_interface.endpoint # ""
                                   THEN new_interface.endpoint
                                   ELSE Loopback(connector_config["listen"]),
                      !.connector =
                          << ConnectorPhantunClientConfig(
                                 Loopback(connector_config["listen"]),
                                 connector_config["remote"],
                                 connector_config["tun-name"],
                                 connector_config["tun-local"],
                                 connector_config["tun-peer"]) >>]]
            ELSE [fatal |-> TRUE, interface |-> new_interface]

\* faulty variant: the server connector always points at the interface's listen port
ResolveConnector_static_remote(interface_config, new_interface) ==
    IF "connector" \notin DOMAIN interface_config
    THEN [fatal |-> FALSE, interface |-> new_interface]
    ELSE LET connector_config == interface_config["connector"]
         IN IF connector_config["type"] = "phantun-server"
            THEN [fatal |-> FALSE,
                  interface |-> [new_interface EXCEPT !.connector =
                      << [ConnectorPhantunServerConfig(
                              connector_config["listen"],
                              connector_config["tun-name"],
                              connector_config["tun-local"],
                              connector_config["tun-peer"])
                          EXCEPT !.remote =
                              Loopback(new_interface.listen)] >>]]
            ELSE IF connector_config["type"] = "phantun-client"
            THEN [fatal |-> FALSE,
                  interface |-> [new_interface EXCEPT
                      !.endpoint = Loopback(connector_config["listen"]),
                      !.connector =
                          << ConnectorPhantunClientConfig(
                                 Loopback(connector_config["listen"]),
                                 connector_config["remote"],
                                 connector_config["tun-name"],
                                 connector_config["tun-local"],
                                 connector_config["tun-peer"]) >>]]
            ELSE [fatal |-> TRUE, interface |-> new_interface]

\* lines 190-225: the connector of the link, and its effect on the interface
ResolveConnector(interface_config, new_interface) ==
    IF "connector" \notin DOMAIN interface_config
    THEN [fatal |-> FALSE, interface |-> new_interface]
    ELSE LET connector_config == interface_config["connector"]
         IN IF connector_config["type"] = "phantun-server"
            THEN [fatal |-> FALSE,
                  interface |-> [new_interface EXCEPT !.connector =
                      << [ConnectorPhantunServerConfig(
                              connector_config["listen"],
                              connector_config["tun-name"],
                              connector_config["tun-local"],
                              connector_config["tun-peer"])
                          EXCEPT !.remote =
                              IF new_interface.listen = 0 THEN "#dynamic"
                              ELSE Loopback(new_interface.listen)] >>]]
            ELSE IF connector_config["type"] = "phantun-client"
            THEN [fatal |-> FALSE,
                  interface |-> [new_interface EXCEPT
                      !.endpoint = Loopback(connector_config["listen"]),
                      !.connector =
                          << ConnectorPhantunClientConfig(
                                 Loopback(connector_config["listen"]),
                                 connector_config["remote"],
                                 connector_config["tun-name"],
                                 connector_config["tun-local"],
                                 connector_config["tun-peer"]) >>]]
            ELSE [fatal |-> TRUE, interface |-> new_interface]

\* faulty variant: the connector is resolved before the interface is validated
ResolveLink_connector_first(self, interface_name, interface_config, wg_config) ==
    LET resolved == ResolveConnector(
                        interface_config,
                        NewInterface(self, interface_name, interface_config,
                                     wg_config))
    IN IF resolved.fatal \/ validate(resolved.interface)
       THEN resolved
       ELSE [fatal |-> TRUE, interface |-> resolved.interface]

\* lines 164-225: resolve, validate (exit(1) on failure), then the connector
ResolveLink(self, interface_name, interface_config, wg_config) ==
    LET new_interface == NewInterface(self, interface_name, interface_config,
                                      wg_config)
    IN IF ~validate(new_interface)
       THEN [fatal |-> TRUE, interface |-> new_interface]
       ELSE ResolveConnector(interface_config, new_interface)

(***************************************************************************)
(* ipaddress: an address is [ip |-> <<o1, o2, o3, o4>>, prefixlen |-> n].  *)
(***************************************************************************)
RECURSIVE Pow2(_)
Pow2(n) == IF n = 0 THEN 1 ELSE 2 * Pow2(n - 1)

\* octet j of the address with its host bits cleared
NetworkOctet(address, j) ==
    LET kept == address.prefixlen - 8 * (j - 1)
        bits == IF kept < 0 THEN 0 ELSE IF kept > 8 THEN 8 ELSE kept
    IN address.ip[j] - (address.ip[j] % Pow2(8 - bits))

NetworkText(address) ==
    ToString(NetworkOctet(address, 1)) \o "." \o
    ToString(NetworkOctet(address, 2)) \o "." \o
    ToString(NetworkOctet(address, 3)) \o "." \o
    ToString(NetworkOctet(address, 4)) \o "/" \o ToString(address.prefixlen)

\* ipaddress.ip_network(address) raises ValueError when host bits are set
HasHostBits(address) ==
    \E j \in 1..4 : NetworkOctet(address, j) # address.ip[j]

(***************************************************************************)
(* NetworkConfigParser.__init__, BIRD part: CIDR list and area map.        *)
(***************************************************************************)
\* line 230: the networks of the OSPF-enabled links, in declaration order
RECURSIVE LinkCidrs(_)
LinkCidrs(items) ==
    IF items = <<>> THEN <<>>
    ELSE (IF Head(items)[2].enable_ospf
          THEN <<NetworkText(Head(items)[2].address)>> ELSE <<>>)
         \o LinkCidrs(Tail(items))

\* lines 235-242: every OSPF-enabled link goes under its own area
RECURSIVE AddLinks(_, _)
AddLinks(area_config, items) ==
    IF items = <<>> THEN area_config
    ELSE LET interface_item == Head(items)[2]
         IN IF ~interface_item.enable_ospf
            THEN AddLinks(area_config, Tail(items))
            ELSE LET area == interface_item.ospf_config[1].area
                     with_area ==
                         IF area \notin DictKeys(area_config)
                         THEN DictSet(area_config, area, <<>>)
                         ELSE area_config
                 IN AddLinks(
                        DictSet(with_area, area,
                                DictSet(DictGet(with_area, area),
                                        interface_item.name,
                                        interface_item.ospf_config[1])),
                        Tail(items))

\* lines 244-248: the local network's entry.  interface_item is the loop
\* variable left over from lines 235-242: unbound when there is no link
\* (NameError), and without an ospf_config when the last link has OSPF
\* disabled (the attribute read fails).
AddLocal(self, items, area_config) ==
    IF ~(self.enable_local_network /\ self.local[1].local_interface.enable_ospf)
    THEN [crashed |-> FALSE, ospf_area_config |-> area_config]
    ELSE IF items = <<>> \/ items[Len(items)][2].ospf_config = <<>>
    THEN [crashed |-> TRUE, ospf_area_config |-> area_config]
    ELSE LET interface_item == items[Len(items)][2]
             local_ospf     == self.local[1].local_interface.ospf_config[1]
             item_area      == interface_item.ospf_config[1].area
             with_area ==
                 IF local_ospf.area \notin DictKeys(area_config)
                 THEN DictSet(area_config, item_area, <<>>)
                 ELSE area_config
         IN [crashed |-> FALSE,
             ospf_area_config |->
                 DictSet(with_area, item_area,
                         DictSet(DictGet(with_area, item_area),
                                 self.local[1].local_veth_prefix \o "1",
                                 local_ospf))]

(***************************************************************************)
(* get_bird_config.  A document is the sequence of its lines.              *)
(***************************************************************************)
GIT_VERSION == "3f2a9c1"

\* the wall clock at render time: '%Y-%m-%d %H:%M:%S' of now, and
\* '%d-%m-%Y %H:%M:%S' of now minus one day
Clock ==
    { [now |-> "2024-05-02 10:00:00", yesterday |-> "01-05-2024 10:00:00"],
      [now |-> "2025-01-01 00:00:30", yesterday |-> "31-12-2024 00:00:30"] }

\* str() of a CommonOSPFConfig object: the text of the whole object
CommonOSPFConfigText(ospf_interface_config) ==
    "CommonOSPFConfig(area=" \o ToString(ospf_interface_config.area)
    \o ", cost=" \o ToString(ospf_interface_config.cost)
    \o ", auth='" \o ospf_interface_config.auth
    \o "', type='" \o ospf_interface_config.type \o "')"

\* lines 62-74: the block of one interface of an area
InterfaceBlock(interface_name, ospf_interface_config, clock) ==
    <<"interface \"" \o interface_name \o "\" {">>
    \o (IF ospf_interface_config.cost # 0
        THEN <<"cost " \o ToString(ospf_interface_config.cost) \o ";">>
        ELSE <<>>)
    \o (IF ospf_interface_config.type # ""
        THEN <<"type " \o ospf_interface_config.type \o ";">>
        ELSE <<>>)
    \o (IF ospf_interface_config.auth # ""
        THEN <<"authentication cryptographic;",
               "password \"" \o CommonOSPFConfigText(ospf_interface_config)
                   \o "\" {",
               "generate to \"31-12-2099 23:59:59\";",
               "accept from " \o clock.yesterday,
               "algorithm hmac sha512;",
               "};">>
        ELSE <<>>)
    \o <<"};">>

\* lines 58-77: the block of one area
AreaBlock(area_id, area_interface_mapping, clock) ==
    <<"area " \o ToString(area_id) \o " {">>
    \o Flatten([i \in 1..Len(area_interface_mapping) |->
                   InterfaceBlock(area_interface_mapping[i][1],
                                  area_interface_mapping[i][2], clock)])
    \o <<"};">>

get_bird_config(router_id, direct_interface_names, ospf_exclude_import_cidrs, ospf_exclude_export_cidrs, area_config, clock) ==
    LET router_id_text ==
            IF router_id # "" THEN "router id " \o router_id \o ";" ELSE ""
        dnames_text ==
            [i \in 1..Len(direct_interface_names) |->
                "interface \"" \o direct_interface_names[i] \o "\";"]
        localnet_no_import_variable_text ==
            IF ospf_exclude_import_cidrs # <<>>
            THEN "define LOCALNET_NO_IMPORTSET=["
                 \o JoinText(",", ospf_exclude_import_cidrs) \o "];"
            ELSE ""
        localnet_no_export_variable_text ==
            IF ospf_exclude_export_cidrs # <<>>
            THEN "define LOCALNET_NO_EXPORTSET=["
                 \o JoinText(",", ospf_exclude_export_cidrs) \o "];"
            ELSE ""
        \* plain (not formatted) literals: their doubled braces stay doubled
        import_filter_text ==
            IF localnet_no_import_variable_text # ""
            THEN <<"import filter {{",
                   "if net !~ LOCALNET_NO_IMPORTSET then accept;",
                   "else reject;",
                   "}}">>
            ELSE <<"import all">>
        export_filter_text ==
            IF localnet_no_export_variable_text # ""
            THEN <<"export filter {{",
                   "if net !~ LOCALNET_NO_EXPORTSET then accept;",
                   "else reject;",
                   "}}">>
            ELSE <<"export all">>
        final_area_text ==
            Flatten([i \in 1..Len(area_config) |->
                        AreaBlock(area_config[i][1],
                                  area_config[i][2], clock)])
    IN <<"# Auto generated by lspnet-tools at " \o clock.now,
         "# version: " \o GIT_VERSION,
         "",
         localnet_no_import_variable_text,
         localnet_no_export_variable_text,
         "",
         "log stderr all;",
         router_id_text,
         "protocol device {",
         "    ",
         "}",
         "protocol direct {",
         "    ipv4;">>
       \o Embed("    ", dnames_text, "")
       \o <<"}",
            "protocol kernel {",
            "    ipv4 {",
            "        import none;",
            "        export where proto = \"wg\";",
            "    };",
            "}",
            "protocol ospf v2 wg {",
            "    ecmp yes;",
            "    merge external yes;",
            "    ipv4 {">>
       \o Embed("        ", import_filter_text, ";")
       \o Embed("        ", export_filter_text, ";")
       \o <<"    };">>
       \o Embed("    ", final_area_text, "")
       \o <<"}", "">>

(***************************************************************************)
(* Inputs: the root configurations the compiler is run on.                 *)
(***************************************************************************)
Namespace == "lsp"

LinkNames == <<"wg0", "wg1", "wg2", "wg3">>

\* the required keys of link i
LinkBase(i) ==
    [address |-> [ip |-> <<10, 0, i, 1>>, prefixlen |-> 24],
     peer    |-> "10.0." \o ToString(i) \o ".2"]

ServerConnector ==
    ("type" :> "phantun-server") @@ ("listen" :> 4567) @@
    ("tun-name" :> "tun0") @@ ("tun-local" :> "192.168.200.1") @@
    ("tun-peer" :> "192.168.200.2")

ClientConnector ==
    ("type" :> "phantun-client") @@ ("listen" :> 4568) @@
    ("remote" :> "198.51.100.9:4567") @@
    ("tun-name" :> "tun1") @@ ("tun-local" :> "192.168.201.1") @@
    ("tun-peer" :> "192.168.201.2")

UnknownConnector ==
    ("type" :> "phantun-tcp") @@ ("listen" :> 4569)

\* links of an aggregation run: OSPF membership, and the two fatal errors
AggregationLinks(i) ==
    { LinkBase(i) @@ o @@ f :
        o \in { <<>>,
                [ospf |-> FALSE, area |-> 1],
                [ospf |-> TRUE],
                [ospf |-> TRUE, area |-> 1, cost |-> 5],
                [ospf |-> TRUE, area |-> 1, auth |-> "secret"] },
        f \in { <<>>,
                [autoconnect |-> TRUE],
                [connector |-> UnknownConnector] } }

\* one link, every combination of the OSPF keys
InheritanceLinks ==
    { LinkBase(1) @@ o @@ a @@ c @@ s :
        o \in Opt("ospf", BOOLEAN), a \in Opt("area", {0, 2}),
        c \in Opt("cost", {0, 5}), s \in Opt("auth", {"", "secret"}) }

\* one link, every combination of the transport keys
TransportLinks ==
    { LinkBase(1) @@ e @@ k @@ a @@ l @@ c :
        e \in Opt("endpoint", {"", "203.0.113.7:51820"}),
        k \in Opt("keepalive", {0, 10}),
        a \in Opt("autoconnect", BOOLEAN),
        l \in Opt("listen", {0, 51820}),
        c \in Opt("connector",
                  {ServerConnector, ClientConnector, UnknownConnector}) }

\* the networks dicts of n aggregation links, in declaration order
RECURSIVE Networks(_)
Networks(n) ==
    IF n = 0 THEN {<<>>}
    ELSE { Append(s, <<LinkNames[n], raw>>) :
             s \in Networks(n - 1), raw \in AggregationLinks(n) }

LocalBase ==
    [address |-> [ip |-> <<10, 9, 0, 0>>, prefixlen |-> 24],
     ethname |-> "eth0"]

LocalConfigs ==
    { LocalBase,
      LocalBase @@ [ospf |-> TRUE],
      LocalBase @@ [ospf |-> TRUE, area |-> 1, cost |-> 3],
      LocalBase @@ [ospf |-> TRUE, area |-> 2, auth |-> "lan", name |-> "br"] }

RootBase ==
    [hostname |-> "node1", namespace |-> Namespace]

NodeDefaults ==
    { o @@ a @@ c @@ s :
        o \in Opt("ospf", BOOLEAN), a \in Opt("area", {1}),
        c \in Opt("cost", {7}), s \in Opt("auth", {"nodekey"}) }

AggregationConfigs ==
    { RootBase @@ [config |-> <<>>, networks |-> nets] @@ local :
        nets  \in UNION {Networks(n) : n \in 0..MaxLinks},
        local \in Opt("local", LocalConfigs) }

InheritanceConfigs ==
    { RootBase @@ [config |-> defaults,
                   networks |-> << <<LinkNames[1], raw>> >>] :
        defaults \in NodeDefaults, raw \in InheritanceLinks }

TransportConfigs ==
    { RootBase @@ [config |-> [ospf |-> TRUE],
                   networks |-> << <<LinkNames[1], raw>> >>,
                   firewall |-> [ufw |-> TRUE],
                   routerid |-> "10.255.0.1"] :
        raw \in TransportLinks }

RootConfigs == AggregationConfigs \cup InheritanceConfigs \cup TransportConfigs

\* a persisted record: the stored public key may be missing or stale
KeyRecords ==
    { [private |-> k, public |-> p] :
        k \in PrivKeys, p \in {"", "stale"} \cup {wg_pubkey(q) : q \in PrivKeys} }

\* stores the compiler may find: empty, or a record for every link name
InitialStores ==
    { {},
      { <<KeyPath(Namespace, LinkNames[i]),
          [private |-> "priv1", public |-> IF i = 1 THEN "stale" ELSE ""]>>
        : i \in 1..Len(LinkNames) } }

(***************************************************************************)
(* The compiler as a state machine.                                        *)
(***************************************************************************)
Init ==
    /\ root_config \in RootConfigs
    /\ node = ParseTop(root_config)
    /\ key_store \in InitialStores
    /\ key_log = <<>>
    /\ pc = "resolve"
    /\ next_link = 1
    /\ interfaces = <<>>
    /\ interface_cidrs = <<>>
    /\ ospf_area_config = <<>>
    /\ network_bird_config = <<>>

\* lines 162-227, one iteration: keys, resolution, validation, connector
ResolveInterface ==
    /\ pc = "resolve"
    /\ next_link <= Len(root_config["networks"])
    /\ LET interface_name   == root_config["networks"][next_link][1]
           interface_config == root_config["networks"][next_link][2]
       IN \E out \in load_or_create_keys(key_store, node.namespace, interface_name) :
            LET resolved == ResolveLink(node, interface_name,
                                        interface_config, out.keys)
            IN /\ key_store' = out.store
               /\ key_log' = Append(key_log,
                                    [namespace |-> node.namespace,
                                     name      |-> interface_name,
                                     keys      |-> out.keys,
                                     created   |-> out.store # key_store])
               /\ IF resolved.fatal
                  THEN /\ pc' = "fatal"
                       /\ UNCHANGED <<next_link, interfaces>>
                  ELSE /\ pc' = "resolve"
                       /\ next_link' = next_link + 1
                       /\ interfaces' = DictSet(interfaces,
                                                resolved.interface.name,
                                                resolved.interface)
    /\ UNCHANGED <<root_config, node, interface_cidrs, ospf_area_config,
                   network_bird_config>>

\* lines 229-248: the CIDR list and the area map
Aggregate ==
    /\ pc = "resolve"
    /\ next_link > Len(root_config["networks"])
    /\ LET with_local == node.enable_local_network
                         /\ node.local[1].local_interface.enable_ospf
           with_links == AddLocal(node, interfaces,
                                  AddLinks(<<>>, interfaces))
       IN IF (with_local /\ HasHostBits(node.local[1].local_interface.address))
             \/ with_links.crashed
          THEN /\ pc' = "crashed"
               /\ UNCHANGED <<interface_cidrs, ospf_area_config>>
          ELSE /\ pc' = "aggregated"
               /\ interface_cidrs' =
                      LinkCidrs(interfaces)
                      \o (IF with_local
                          THEN <<NetworkText(
                                     node.local[1].local_interface.address)>>
                          ELSE <<>>)
               /\ ospf_area_config' = with_links.ospf_area_config
    /\ UNCHANGED <<root_config, node, key_store, key_log, next_link,
                   interfaces, network_bird_config>>

\* line 250: the document
Render ==
    /\ pc = "aggregated"
    /\ \E clock \in Clock :
         network_bird_config' =
             << get_bird_config("", <<>>, interface_cidrs, <<>>,
                                ospf_area_config, clock) >>
    /\ pc' = "done"
    /\ UNCHANGED <<root_config, node, key_store, key_log, next_link,
                   interfaces, interface_cidrs, ospf_area_config>>

Next == ResolveInterface \/ Aggregate \/ Render

Spec == Init /\ [][Next]_vars

(***************************************************************************)
(* The key store alone: any sequence of load_or_create_keys calls.         *)
(***************************************************************************)
KeyNames == {LinkNames[1], LinkNames[2]}

\* the store in which the path of each name n holds the records choice[n]
StoreOf(choice) ==
    UNION { {<<KeyPath(Namespace, n), r>> : r \in choice[n]} : n \in KeyNames }

KeyInit ==
    /\ root_config = RootBase @@ [config |-> <<>>, networks |-> <<>>]
    /\ node = ParseTop(root_config)
    /\ key_store \in
           { StoreOf(choice) :
               choice \in [KeyNames -> {{}} \cup {{r} : r \in KeyRecords}] }
    /\ key_log = <<>>
    /\ pc = "keys"
    /\ next_link = 1
    /\ interfaces = <<>>
    /\ interface_cidrs = <<>>
    /\ ospf_area_config = <<>>
    /\ network_bird_config = <<>>

CallLoadOrCreateKeys ==
    /\ pc = "keys"
    /\ Len(key_log) < MaxCalls
    /\ \E name \in KeyNames :
         \E out \in load_or_create_keys(key_store, Namespace, name) :
            /\ key_store' = out.store
            /\ key_log' = Append(key_log,
                                 [namespace |-> Namespace,
                                  name      |-> name,
                                  keys      |-> out.keys,
                                  created   |-> out.store # key_store])
    /\ UNCHANGED <<root_config, node, pc, next_link, interfaces,
                   interface_cidrs, ospf_area_config, network_bird_config>>

KeyNext == CallLoadOrCreateKeys

KeySpec == KeyInit /\ [][KeyNext]_vars

(***************************************************************************)
(* Properties.                                                             *)
(***************************************************************************)
\* link i as declared, and as resolved (self.interfaces keeps the
\* declaration order: the composite names are distinct)
RawOf(i) == root_config["networks"][i][2]
Resolved(i) == interfaces[i][2]

Aggregated == pc \in {"aggregated", "done"}

\* the area keys under which interface_name has an entry
AreasHolding(interface_name) ==
    { ospf_area_config[a][1] :
        a \in { b \in 1..Len(ospf_area_config) :
                  interface_name \in DictKeys(ospf_area_config[b][2]) } }

LocalOspf ==
    node.enable_local_network /\ node.local[1].local_interface.enable_ospf

\* C1: once aggregation has finished, every OSPF-enabled link has exactly
\* one entry in the area map, under its own area, and no OSPF-disabled link
\* has an entry in any area.
C1_AreaGrouping ==
    Aggregated =>
        \A i \in 1..Len(interfaces) :
            AreasHolding(Resolved(i).name) =
                IF Resolved(i).enable_ospf
                THEN {Resolved(i).ospf_config[1].area}
                ELSE {}

\* C2: with an OSPF-enabled local network, aggregation ends with exactly one
\* entry "{veth-prefix}1", under the local network's own area, carrying the
\* local network's OSPF parameters -- whatever the links are.
C2_LocalEntry ==
    (pc \in {"aggregated", "done", "crashed"} /\ LocalOspf) =>
        LET veth  == node.local[1].local_veth_prefix \o "1"
            local == node.local[1].local_interface.ospf_config[1]
        IN /\ AreasHolding(veth) = {local.area}
           /\ \A a \in 1..Len(ospf_area_config) :
                  ospf_area_config[a][1] = local.area =>
                      DictGet(ospf_area_config[a][2], veth) = local

\* the link the loop is at declares autoconnect, with / without an endpoint
AtLink == pc = "resolve" /\ next_link <= Len(root_config["networks"])
Autoconnect(raw) == Get(raw, "autoconnect", FALSE)
Endpoint(raw) == Get(raw, "endpoint", "")
KnownConnector(raw) ==
    "connector" \in DOMAIN raw =>
        raw["connector"]["type"] \in {"phantun-server", "phantun-client"}
Accepted ==
    /\ pc' = "resolve"
    /\ next_link' = next_link + 1
    /\ Len(interfaces') = Len(interfaces) + 1
AutoconnectHasEndpoint ==
    \A i \in 1..Len(interfaces') :
        interfaces'[i][2].autoconnect => interfaces'[i][2].endpoint # ""

\* C3 as stated: a link with autoconnect and no endpoint is always fatal
\* (also with a phantun-client connector), a link with autoconnect and an
\* endpoint always resolves, and every resolved interface with autoconnect
\* has an endpoint.
C3_AutoconnectGuard_Original ==
    [][ AtLink =>
          /\ (Autoconnect(RawOf(next_link)) /\ Endpoint(RawOf(next_link)) = "")
                 => pc' = "fatal"
          /\ (Autoconnect(RawOf(next_link)) /\ Endpoint(RawOf(next_link)) # "")
                 => Accepted
          /\ AutoconnectHasEndpoint ]_vars

\* C3 (amended): a link with autoconnect and no endpoint is always fatal
\* (also with a phantun-client connector); a link with autoconnect and an
\* endpoint resolves whenever its connector, if it declares one, is of a
\* known type; every resolved interface with autoconnect has an endpoint.
C3_AutoconnectGuard ==
    [][ AtLink =>
          /\ (Autoconnect(RawOf(next_link)) /\ Endpoint(RawOf(next_link)) = "")
                 => pc' = "fatal"
          /\ (/\ Autoconnect(RawOf(next_link))
              /\ Endpoint(RawOf(next_link)) # ""
              /\ KnownConnector(RawOf(next_link)))
                 => Accepted
          /\ AutoconnectHasEndpoint ]_vars

\* the run ended fatally at a link with autoconnect, no endpoint and a
\* phantun-client connector
C3_Witness ==
    /\ pc = "fatal"
    /\ Autoconnect(RawOf(next_link))
    /\ Endpoint(RawOf(next_link)) = ""
    /\ "connector" \in DOMAIN RawOf(next_link)
    /\ RawOf(next_link)["connector"]["type"] = "phantun-client"

\* C4: a run that ends in a fatal author error has exposed no document and
\* has created no keypair record.
C4_NoPartialOutput ==
    pc = "fatal" =>
        /\ network_bird_config = <<>>
        /\ \A i \in 1..Len(key_log) : ~key_log[i].created

\* calls for the same (namespace, name) returned the same keypair
KeysAgree ==
    \A i, j \in 1..Len(key_log) :
        (key_log[i].namespace = key_log[j].namespace
         /\ key_log[i].name = key_log[j].name)
            => key_log[i].keys = key_log[j].keys

OneRecordPerPair ==
    \A n \in KeyNames :
        Cardinality({f \in key_store : f[1] = KeyPath(Namespace, n)}) <= 1

\* C5: over any sequence of load_or_create_keys calls, calls for the same
\* (namespace, name) return the same keypair, the store holds at most one
\* record per pair, and a record in the store is never replaced or removed.
C5_IdempotentKeys ==
    /\ [](KeysAgree /\ OneRecordPerPair)
    /\ [][\A f \in key_store : f \in key_store']_vars

\* a pair was asked for twice: the first call created its record, the
\* second read it
C5_Witness ==
    \E i, j \in 1..Len(key_log) :
        /\ i < j
        /\ key_log[i].name = key_log[j].name
        /\ key_log[i].created
        /\ ~key_log[j].created

IsClient(raw) ==
    "connector" \in DOMAIN raw /\ raw["connector"]["type"] = "phantun-client"

IsServer(raw) ==
    "connector" \in DOMAIN raw /\ raw["connector"]["type"] = "phantun-server"

\* C6: a resolved interface that declares a phantun-client connector has
\* endpoint "127.0.0.1:<connector listen port>", whatever endpoint it
\* configured, and its connector's local socket is the same text.
C6_ClientEndpoint ==
    \A i \in 1..Len(interfaces) :
        IsClient(RawOf(i)) =>
            /\ Resolved(i).endpoint =
                   "127.0.0.1:" \o ToString(RawOf(i)["connector"]["listen"])
            /\ Resolved(i).connector[1].local = Resolved(i).endpoint

\* a client connector resolved on a link that configured its own endpoint
C6_Witness ==
    \E i \in 1..Len(interfaces) :
        /\ IsClient(RawOf(i))
        /\ Endpoint(RawOf(i)) = "203.0.113.7:51820"
        /\ Resolved(i).endpoint = "127.0.0.1:4568"

\* C7: a resolved interface that declares no keepalive has keepalive 25 if
\* its resolved endpoint is non-empty and 0 otherwise, also when the
\* endpoint comes from a phantun-client connector.
C7_KeepaliveDefault ==
    \A i \in 1..Len(interfaces) :
        "keepalive" \notin DOMAIN RawOf(i) =>
            Resolved(i).keepalive =
                IF Resolved(i).endpoint # "" THEN 25 ELSE 0

\* the lines of the document's block of interface_name: from its header
\* line up to the next header line of an interface or an area
Document == network_bird_config[1]

HeaderLines ==
    { "area " \o ToString(ospf_area_config[a][1]) \o " {" :
        a \in 1..Len(ospf_area_config) }
    \cup
    UNION { { "interface \"" \o ospf_area_config[a][2][e][1] \o "\" {" :
                e \in 1..Len(ospf_area_config[a][2]) } :
            a \in 1..Len(ospf_area_config) }

BlockLines(interface_name) ==
    LET header == "interface \"" \o interface_name \o "\" {"
        first  == CHOOSE h \in 1..Len(Document) : Document[h] = header
        later  == { h \in (first + 1)..Len(Document) :
                      Document[h] \in HeaderLines }
        last   == IF later = {} THEN Len(Document)
                  ELSE (CHOOSE h \in later : \A g \in later : h <= g) - 1
    IN { Document[h] : h \in first..last }

CostLines(lines) ==
    { c \in 0..9 : ("cost " \o ToString(c) \o ";") \in lines }

\* C8: for every entry of the area map the document holds an interface
\* block with a "cost N;" line iff the cost N is non-zero, and with a
\* cryptographic-authentication block iff the auth secret is non-empty, whose
\* password is then the auth secret.
C8_InterfaceBlock ==
    pc = "done" =>
        \A a \in 1..Len(ospf_area_config) :
            \A e \in 1..Len(ospf_area_config[a][2]) :
                LET config == ospf_area_config[a][2][e][2]
                    lines  == BlockLines(ospf_area_config[a][2][e][1])
                IN /\ CostLines(lines) =
                          IF config.cost # 0 THEN {config.cost} ELSE {}
                   /\ ("authentication cryptographic;" \in lines)
                          <=> (config.auth # "")
                   /\ config.auth # "" =>
                          ("password \"" \o config.auth \o "\" {") \in lines

OspfKeys == {"ospf", "area", "cost", "auth"}

NodeDefault(key, builtin) == Get(root_config["config"], key, builtin)

C10_ServerRemote ==
    \A i \in 1..Len(interfaces) :
        IsServer(RawOf(i)) =>
            /\ Resolved(i).listen = 0 =>
                   Resolved(i).connector[1].remote = "#dynamic"
            /\ Resolved(i).listen > 0 =>
                   Resolved(i).connector[1].remote =
                       "127.0.0.1:" \o ToString(Resolved(i).listen)
            /\ Resolved(i).endpoint = Endpoint(RawOf(i))

\* a server connector resolved on a link without a listen port, which
\* configured an endpoint
C10_Witness ==
    \E i \in 1..Len(interfaces) :
        /\ IsServer(RawOf(i))
        /\ Resolved(i).listen = 0
        /\ Resolved(i).connector[1].remote = "#dynamic"
        /\ Resolved(i).endpoint = "203.0.113.7:51820"

====
